---- MODULE Spec2Model ----
(***************************************************************************)
(* Pegasus-Skin-Editor, ui.py: the Region / Representation geometry        *)
(* editor.  The Tk canvas is modelled by what the program uses of it: a    *)
(* display list of image items (id, anchor-nw position, image size, tags)  *)
(* whose ids are handed out by a counter and never reused, bbox, move,     *)
(* delete, find_closest, and the per-key binding scripts.                  *)
(***************************************************************************)
EXTENDS Integers, Sequences, FiniteSets, TLC

VARIABLES
    _items,         \* Representation._items: the item configs it was built from
    extended_edges, \* Representation.extended_edges: the default margins
    construction,   \* how Representation.__init__ ended: "ok" or what it raised
    canvas,         \* the canvas display list: live item id -> [x, y, w, h, tags]
    nextId,         \* the id the next create_image returns
    images,         \* Representation.images: str(item id) -> Region
    _e,             \* Region._e, per Region: item id of the extended image
    _t,             \* Region._t, per Region: item id of the touch (core) image
    selected,       \* Representation.selected: a Region or None
    _sel,           \* Representation._sel: () or the 1-tuple find_closest gave
    selected_data,  \* Representation.selected_data: the drag anchor
    cur_selected,   \* master.cur_selected: the published status text
    binds,          \* the scripts bound to each arrow key, in call order
    b1,             \* whether pointer button 1 is held (decides <B1-Motion>)
    hit,            \* which image the last selecting press hit, if any
    ext_only,       \* the Regions resize(dw, dh, False) has been called on
    err,            \* the exceptions the callbacks of the last event raised
    last,           \* the last event or call handled, with its inputs
    steps           \* how many events or calls have been handled

vars == <<_items, extended_edges, construction, canvas, nextId, images, _e, _t, selected, _sel, selected_data,
          cur_selected, binds, b1, hit, ext_only, err, last, steps>>

\* ---------------------------------------------------------------- bounds
\* Events handled in one run of the editor (Spec).
MaxSteps == 4
\* Region.move / Region.resize calls in one run of the Region harness.
MaxCalls == 2

\* ---------------------------------------------------------- configuration
\* None as the value of Representation.selected (Regions are 1, 2, ...).
None == 0

\* No exception raised.
NoExc == "NoExc"

\* None as the answer of bbox.
NoBBox == <<>>

BUTTON_NAMES ==
    [name \in {"Analog Stick", "D-Pad", "Touch Screen"} |->
        CASE name = "Analog Stick" ->
                 [kind |-> "dict",
                  val |-> [up |-> "analogStickUp", down |-> "analogStickDown",
                           left |-> "analogStickLeft", right |-> "analogStickRight"]]
          [] name = "D-Pad" ->
                 [kind |-> "dict",
                  val |-> [up |-> "up", down |-> "down",
                           left |-> "left", right |-> "right"]]
          [] name = "Touch Screen" ->
                 [kind |-> "dict",
                  val |-> [x |-> "touchScreenX", y |-> "touchScreenY"]]]

Edges == {"top", "bottom", "left", "right"}

\* The constructor arguments of the Representation under study.
mapping_size == [width |-> 10, height |-> 7]

default_edges == [top |-> 1, bottom |-> 1, left |-> 1, right |-> 1]

items ==
    << [inputs |-> [kind |-> "list", val |-> <<"a">>],
        frame |-> [x |-> 2, y |-> 2, width |-> 2, height |-> 2]],
       [inputs |-> BUTTON_NAMES["D-Pad"],
        frame |-> [x |-> 7, y |-> 2, width |-> 1, height |-> 1],
        extendedEdges |-> [top |-> 0, left |-> 0, right |-> 0]] >>

regions == 1..Len(_items)

\* Region.__init__: the fields read from the item config.
Region_inputs(r) == _items[r].inputs

Region_width(r) == _items[r].frame.width

Region_height(r) == _items[r].frame.height

\* The coords with the frame's x and y taken for each other.
Region_coords_transposed(r) == <<_items[r].frame.y, _items[r].frame.x>>

Region_coords(r) == <<_items[r].frame.x, _items[r].frame.y>>

\* A Region that takes the representation's default whatever the item says.
Region_extended_edges_ignores_override(r) == extended_edges

\* Region.__init__: the override, each missing edge filled in from the
\* representation's default; with no override, the default itself.
Region_extended_edges(r) ==
    IF "extendedEdges" \in DOMAIN _items[r]
    THEN [k \in Edges |->
            IF k \in DOMAIN _items[r].extendedEdges
            THEN _items[r].extendedEdges[k]
            ELSE extended_edges[k]]
    ELSE extended_edges

\* ------------------------------------------------------------ the canvas
\* str(item id): the registry's keys are the decimal strings of the ids.
str(i) == <<"str", i>>

\* tk.Canvas.create_image(x, y, image=<w x h image>, anchor="nw", tag=tags):
\* a new item on top of the display list; its id is the counter's value.
create_image(cv, id, x, y, w, h, tags) ==
    [i \in DOMAIN cv \cup {id} |->
        IF i = id THEN [x |-> x, y |-> y, w |-> w, h |-> h, tags |-> tags]
        ELSE cv[i]]

\* tk.Canvas.delete(id)
delete(cv, id) == [i \in DOMAIN cv \ {id} |-> cv[i]]

\* tk.Canvas.bbox(id): (x1, y1, x2, y2) of a live item, None for an id that
\* names no item (Tk answers "", which tkinter turns into None).
bbox(cv, id) ==
    IF id \in DOMAIN cv
    THEN <<cv[id].x, cv[id].y, cv[id].x + cv[id].w, cv[id].y + cv[id].h>>
    ELSE NoBBox

\* move with the vertical delta dropped
move_x_only(cv, id, dx, dy) ==
    [i \in DOMAIN cv |-> IF i = id THEN [cv[i] EXCEPT !.x = @ + dx] ELSE cv[i]]

\* tk.Canvas.move(id, dx, dy): an id that names no item moves nothing.
move(cv, id, dx, dy) ==
    [i \in DOMAIN cv |->
        IF i = id THEN [cv[i] EXCEPT !.x = @ + dx, !.y = @ + dy] ELSE cv[i]]

\* Squared distance from a point to an image item (0 inside and on the edge).
Dist2(it, px, py) ==
    LET xd == IF px < it.x THEN it.x - px
              ELSE IF px > it.x + it.w THEN px - (it.x + it.w) ELSE 0
        yd == IF py < it.y THEN it.y - py
              ELSE IF py > it.y + it.h THEN py - (it.y + it.h) ELSE 0
    IN xd * xd + yd * yd

\* tk.Canvas.find_closest(x, y): the 1-tuple of the closest item, the topmost
\* (last created) of several equally close; () on an empty canvas.
find_closest(cv, px, py) ==
    IF DOMAIN cv = {} THEN <<>>
    ELSE LET best == {i \in DOMAIN cv :
                        \A j \in DOMAIN cv :
                            Dist2(cv[i], px, py) <= Dist2(cv[j], px, py)}
         IN <<CHOOSE i \in best : \A j \in best : j <= i>>

\* A canvas whose items all read as untagged.
gettags_untagged(cv, sel) == {}

\* tk.Canvas.gettags(sel)
gettags(cv, sel) == IF sel = <<>> THEN {} ELSE cv[sel[1]].tags

\* ------------------------------------------------------------- the world
\* The program state as one record, so that a callback is a function of it.
World ==
    [canvas |-> canvas, nextId |-> nextId, images |-> images, _e |-> _e,
     _t |-> _t, selected |-> selected, _sel |-> _sel,
     selected_data |-> selected_data, cur_selected |-> cur_selected,
     binds |-> binds, exc |-> NoExc]

\* An exception leaves the state as it is at the raise.
Raise(W, name) == [W EXCEPT !.exc = name]

\* dict.pop(key) / dict.update({key: value}) on Representation.images
images_pop(im, key) == [k \in DOMAIN im \ {key} |-> im[k]]

images_update(im, key, r) == [k \in DOMAIN im \cup {key} |-> IF k = key THEN r ELSE im[k]]

\* PIL Image.resize(size): Pillow refuses a size below 1 x 1 with ValueError
\* ("height and width must be > 0").
Image_resize_ok(w, h) == w >= 1 /\ h >= 1

\* ---------------------------------------------------------------- Region
\* Region.__init__, lines 22-27: the subscripts that raise KeyError on an
\* item config without "inputs", "frame" or one of the frame's fields.
has_required_keys(item) ==
    /\ {"inputs", "frame"} \subseteq DOMAIN item
    /\ {"x", "y", "width", "height"} \subseteq DOMAIN item.frame

\* Region.__init__, lines 42-53: the extended image below, the touch image
\* above it, both registered to the Region.
Region_init(W, r) ==
    IF ~has_required_keys(_items[r]) THEN Raise(W, "KeyError") ELSE
    LET ee == Region_extended_edges(r)
        cx == Region_coords(r)[1]
        cy == Region_coords(r)[2]
        ide == W.nextId
        idt == W.nextId + 1
        cv1 == create_image(W.canvas, ide, cx - ee["left"], cy - ee["top"],
                            ee["left"] + Region_width(r) + ee["right"],
                            ee["top"] + Region_height(r) + ee["bottom"], {})
        cv2 == create_image(cv1, idt, cx, cy, Region_width(r), Region_height(r), {})
    IN [W EXCEPT !.canvas = cv2, !.nextId = idt + 1,
                 !._e = [q \in DOMAIN @ \cup {r} |-> IF q = r THEN ide ELSE @[q]],
                 !._t = [q \in DOMAIN @ \cup {r} |-> IF q = r THEN idt ELSE @[q]],
                 !.images = images_update(images_update(@, str(idt), r), str(ide), r)]

\* Region.move with the move of the touch image forgotten
Region_move_extended_only(W, r, delta_x, delta_y) ==
    [W EXCEPT !.canvas = move(@, W._e[r], delta_x, delta_y)]

\* Region.move
Region_move(W, r, delta_x, delta_y) ==
    [W EXCEPT !.canvas = move(move(@, W._e[r], delta_x, delta_y),
                              W._t[r], delta_x, delta_y)]

\* Region.resize, lines 60-71 (field = "_e") and 74-85 (field = "_t"): one
\* image replaced by a resized one at the same top-left corner.
resize_one(W, r, field, delta_w, delta_h) ==
    LET old == W[field][r]
        bb == bbox(W.canvas, old)
    IN IF bb = NoBBox THEN Raise(W, "TypeError")
       ELSE IF str(old) \notin DOMAIN W.images THEN Raise(W, "KeyError")
       ELSE LET W1 == [W EXCEPT !.images = images_pop(@, str(old)),
                                !.canvas = delete(@, old)]
                w == bb[3] - bb[1]
                h == bb[4] - bb[2]
            IN IF ~Image_resize_ok(w + delta_w, h + delta_h)
               THEN Raise(W1, "ValueError")
               ELSE [W1 EXCEPT
                       !.canvas = create_image(@, W1.nextId, bb[1], bb[2],
                                               w + delta_w, h + delta_h, {}),
                       !.nextId = @ + 1,
                       ![field] = [@ EXCEPT ![r] = W1.nextId],
                       !.images = images_update(@, str(W1.nextId), r)]

\* Region.resize
Region_resize(W, r, delta_w, delta_h, which) ==
    LET W1 == resize_one(W, r, "_e", delta_w, delta_h)
    IN IF W1.exc # NoExc THEN W1
       ELSE IF which THEN resize_one(W1, r, "_t", delta_w, delta_h)
       ELSE W1

\* -------------------------------------------------------- Representation
Keys == <<"Left", "Right", "Up", "Down">>

\* The callbacks class Representation defines (tk.Canvas has none of these
\* names): what self.<name> finds.
Representation_methods ==
    {"statusbar_updater", "select_region", "deselect_region", "drag",
     "drag_stop", "move_region", "resize_region"}

\* str.capitalize on the input names in use.
capitalize(s) ==
    CASE s = "a" -> "A" [] s = "b" -> "B" [] s = "x" -> "X" [] s = "y" -> "Y"
      [] OTHER -> s

\* ", ".join(names)
RECURSIVE join(_)
join(names) ==
    IF Len(names) = 1 THEN <<names[1]>>
    ELSE <<names[1], ", ">> \o join(Tail(names))

\* statusbar_updater, lines 157-166: the label of an input binding.
status_key(inputs) ==
    LET named == {n \in DOMAIN BUTTON_NAMES : BUTTON_NAMES[n] = inputs}
    IN IF named # {} THEN <<CHOOSE n \in named : TRUE>>
       ELSE IF inputs.kind = "list"
            THEN IF Len(inputs.val) > 1
                 THEN join([i \in DOMAIN inputs.val |-> capitalize(inputs.val[i])])
                 ELSE <<capitalize(inputs.val[1])>>
            ELSE <<inputs.val>>

\* f"{key} | X: {x1} Y: {y1} | W: {x2 - x1} H: {y2 - y1}"
status_text(key, x1, y1, x2, y2) ==
    key \o <<" | X: ", x1, " Y: ", y1, " | W: ", x2 - x1, " H: ", y2 - y1>>

\* Representation.statusbar_updater
statusbar_updater(W) ==
    IF W.selected = None THEN Raise(W, "AttributeError")
    ELSE LET bb == IF W._sel = <<>> THEN NoBBox ELSE bbox(W.canvas, W._sel[1])
         IN IF bb = NoBBox THEN Raise(W, "TypeError")
            ELSE [W EXCEPT !.cur_selected =
                     status_text(status_key(Region_inputs(W.selected)),
                                 bb[1], bb[2], bb[3], bb[4])]

\* select_region, lines 179-181: the loop that rebinds the arrow keys to
\* resize_extended; it stops at the first name lookup that fails.
RECURSIVE bind_extended(_, _)
bind_extended(W, i) ==
    IF i > Len(Keys) THEN W
    ELSE LET W1 == [W EXCEPT !.binds[Keys[i]] = <<>>]
         IN IF "resize_extended" \notin Representation_methods
            THEN Raise(W1, "AttributeError")
            ELSE bind_extended(
                     [W1 EXCEPT !.binds[Keys[i]] = <<"resize_extended">>], i + 1)

\* select_region, lines 183-186
bind_move_resize(W) ==
    [W EXCEPT !.binds = [k \in DOMAIN @ |-> <<"move_region", "resize_region">>]]

\* Representation.select_region
select_region(W, ex, ey) ==
    LET sel == find_closest(W.canvas, ex, ey)
    IN IF "nodrag" \in gettags(W.canvas, sel) THEN W
       ELSE IF sel = <<>> THEN Raise([W EXCEPT !._sel = sel], "IndexError")
       ELSE IF str(sel[1]) \notin DOMAIN W.images
            THEN Raise([W EXCEPT !._sel = sel], "KeyError")
       ELSE LET W1 == [W EXCEPT !._sel = sel, !.selected = W.images[str(sel[1])]]
                W2 == IF <<W1._e[W1.selected]>> = W1._sel
                      THEN bind_extended(W1, 1)
                      ELSE bind_move_resize(W1)
            IN IF W2.exc # NoExc THEN W2
               ELSE statusbar_updater(
                        [W2 EXCEPT !.selected_data = [x |-> ex, y |-> ey]])

\* deselect_region that also puts the drag anchor back to the origin
deselect_region_resets_anchor(W) ==
    IF W.selected = None THEN W
    ELSE [W EXCEPT !.selected = None, !._sel = <<>>, !.cur_selected = <<>>,
                   !.selected_data = [x |-> 0, y |-> 0]]

\* deselect_region with the selection left in place
deselect_region_keeps_selected(W) ==
    IF W.selected = None THEN W
    ELSE [W EXCEPT !._sel = <<>>, !.cur_selected = <<>>]

\* Representation.deselect_region
deselect_region(W) ==
    IF W.selected = None THEN W
    ELSE [W EXCEPT !.selected = None, !._sel = <<>>, !.cur_selected = <<>>]

\* Representation.drag
drag(W, ex, ey) ==
    LET delta_x == ex - W.selected_data.x
        delta_y == ey - W.selected_data.y
    IN IF W.selected = None THEN Raise(W, "AttributeError")
       ELSE statusbar_updater(
                [Region_move(W, W.selected, delta_x, delta_y)
                    EXCEPT !.selected_data = [x |-> ex, y |-> ey]])

\* Representation.drag_stop
drag_stop(W) == [W EXCEPT !.selected_data = [x |-> 0, y |-> 0]]

\* 0x1 & event.state
ShiftBit(state) == state % 2 = 1

\* Representation.move_region
move_region(W, keysym, state) ==
    IF W.selected = None THEN W
    ELSE LET W1 ==
               IF keysym = "Right" /\ ~ShiftBit(state)
               THEN Region_move(W, W.selected, 1, 0)
               ELSE IF keysym = "Left" /\ ~ShiftBit(state)
               THEN Region_move(W, W.selected, -1, 0)
               ELSE IF keysym = "Up" /\ ~ShiftBit(state)
               THEN Region_move(W, W.selected, 0, -1)
               ELSE IF keysym = "Down" /\ ~ShiftBit(state)
               THEN Region_move(W, W.selected, 0, 1)
               ELSE W
         IN statusbar_updater(W1)

\* Representation.resize_region
resize_region(W, keysym, state) ==
    IF W.selected = None THEN W
    ELSE IF keysym = "Right" /\ ShiftBit(state)
         THEN Region_resize(W, W.selected, 1, 0, TRUE)
    ELSE IF keysym = "Left" /\ ShiftBit(state)
         THEN Region_resize(W, W.selected, -1, 0, TRUE)
    ELSE IF keysym = "Up" /\ ShiftBit(state)
         THEN Region_resize(W, W.selected, 0, -1, TRUE)
    ELSE IF keysym = "Down" /\ ShiftBit(state)
         THEN Region_resize(W, W.selected, 0, 1, TRUE)
    ELSE W

\* One bound script run by Tk for a key event.  tkinter reports an exception
\* of a callback and returns, so the scripts after it still run.
call(W, name, keysym, state) ==
    CASE name = "move_region" -> move_region(W, keysym, state)
      [] name = "resize_region" -> resize_region(W, keysym, state)
      [] OTHER -> Raise(W, "AttributeError")

\* The scripts bound to a key, run in the order they were bound; the result
\* is the final state and the exceptions raised on the way.
RECURSIVE dispatch(_, _, _, _, _)
dispatch(W, scripts, keysym, state, raised) ==
    IF scripts = <<>> THEN [W |-> W, raised |-> raised]
    ELSE LET W1 == call(W, Head(scripts), keysym, state)
         IN dispatch([W1 EXCEPT !.exc = NoExc], Tail(scripts), keysym, state,
                     IF W1.exc = NoExc THEN raised ELSE raised \cup {W1.exc})

\* Representation.__init__, lines 145-146: one Region per item; the first
\* exception ends the loop and leaves __init__.
RECURSIVE make_regions(_, _)
make_regions(W, r) ==
    IF r > Len(_items) \/ W.exc # NoExc THEN W
    ELSE make_regions(Region_init(W, r), r + 1)

\* What the asset loader (pdf2image / PIL / the master's archive) does with
\* the first asset: it loads, a lookup raises KeyError, or the PDF renderer
\* raises PDFPageCountError.
AssetOutcomes == {"ok", "KeyError", "PDFPageCountError"}

\* Representation.__init__, lines 136-140
asset_exit(outcome) ==
    IF outcome = "KeyError" THEN "SystemExit: Couldn't get the correct key!"
    ELSE "SystemExit: Couldn't get PDF information! Check your Poppler version."

\* Representation.__init__: the attributes (112-121), the background image
\* (123-143), the Regions (145-146), the bindings (148-154).
Representation_init(outcome) ==
    LET W0 == [canvas |-> <<>>, nextId |-> 1, images |-> <<>>, _e |-> <<>>,
               _t |-> <<>>, selected |-> None, _sel |-> <<>>,
               selected_data |-> [x |-> 0, y |-> 0], cur_selected |-> <<>>,
               binds |-> [k \in {Keys[i] : i \in DOMAIN Keys} |-> <<>>],
               exc |-> NoExc]
    IN IF outcome # "ok" THEN Raise(W0, asset_exit(outcome))
       ELSE LET W1 == make_regions(
                        [W0 EXCEPT !.canvas =
                             create_image(<<>>, 1, 0, 0, mapping_size.width,
                                          mapping_size.height, {"nodrag"}),
                                   !.nextId = 2], 1)
            IN IF W1.exc # NoExc THEN W1
               ELSE [W1 EXCEPT !.binds = [k \in DOMAIN @ |->
                                            <<"move_region", "resize_region">>]]

\* ------------------------------------------------------------ the events
\* Pointer positions the events carry: on the background only, in the halo
\* of Region 1, in its core, in the core of Region 2, in its halo.
Pointer == {<<0, 6>>, <<1, 1>>, <<3, 3>>, <<7, 2>>, <<7, 4>>}

\* event.state values: bit 0 is the shift modifier, bit 2 another one.
States == {0, 1, 4, 5}

\* Deltas of the direct Region.move / Region.resize calls.
Deltas == {-1, 0, 1}

\* The state a callback leaves behind.
Becomes(W) ==
    /\ construction = "ok"
    /\ UNCHANGED <<_items, extended_edges, construction>>
    /\ canvas' = W.canvas
    /\ nextId' = W.nextId
    /\ images' = W.images
    /\ _e' = W._e
    /\ _t' = W._t
    /\ selected' = W.selected
    /\ _sel' = W._sel
    /\ selected_data' = W.selected_data
    /\ cur_selected' = W.cur_selected
    /\ binds' = W.binds

Raised(W) == IF W.exc = NoExc THEN {} ELSE {W.exc}

\* The state Representation(its, mapping_size, edges, assets) is left in.
Constructed(its, edges, outcome) ==
    /\ _items = its
    /\ extended_edges = edges
    /\ construction = IF Representation_init(outcome).exc = NoExc THEN "ok"
                      ELSE Representation_init(outcome).exc
    /\ canvas = Representation_init(outcome).canvas
    /\ nextId = Representation_init(outcome).nextId
    /\ images = Representation_init(outcome).images
    /\ _e = Representation_init(outcome)._e
    /\ _t = Representation_init(outcome)._t
    /\ selected = Representation_init(outcome).selected
    /\ _sel = Representation_init(outcome)._sel
    /\ selected_data = Representation_init(outcome).selected_data
    /\ cur_selected = Representation_init(outcome).cur_selected
    /\ binds = Representation_init(outcome).binds
    /\ b1 = FALSE
    /\ hit = "none"
    /\ ext_only = {}
    /\ err = {}
    /\ last = [op |-> "init", args |-> <<>>]
    /\ steps = 0

Init == Constructed(items, default_edges, "ok")

\* Which image of which Region a press at (ex, ey) selects: the spec's "which
\* visual primitive (core vs extended) was hit", kept by the code only as the
\* comparison of _sel with _e in select_region.
hit_of(W, ex, ey) ==
    LET sel == find_closest(W.canvas, ex, ey)
    IN IF "nodrag" \in gettags(W.canvas, sel) THEN hit
       ELSE IF \E r \in regions : W._e[r] = sel[1] THEN "extended"
       ELSE "core"

\* <Button-1> at (ex, ey)
Button1 ==
    \E p \in Pointer :
        LET W == select_region(World, p[1], p[2])
        IN /\ steps < MaxSteps
           /\ ~b1
           /\ Becomes(W)
           /\ b1' = TRUE
           /\ hit' = hit_of(World, p[1], p[2])
           /\ ext_only' = ext_only
           /\ err' = Raised(W)
           /\ last' = [op |-> "Button1", args |-> p]
           /\ steps' = steps + 1

\* <B1-Motion> to (ex, ey): Tk sends it only while button 1 is held
B1Motion ==
    \E p \in Pointer :
        LET W == drag(World, p[1], p[2])
        IN /\ steps < MaxSteps
           /\ b1
           /\ Becomes(W)
           /\ b1' = b1
           /\ hit' = hit
           /\ ext_only' = ext_only
           /\ err' = Raised(W)
           /\ last' = [op |-> "B1Motion", args |-> p]
           /\ steps' = steps + 1

\* <ButtonRelease-1>
ButtonRelease1 ==
    LET W == drag_stop(World)
    IN /\ steps < MaxSteps
       /\ b1
       /\ Becomes(W)
       /\ b1' = FALSE
       /\ hit' = hit
       /\ ext_only' = ext_only
       /\ err' = Raised(W)
       /\ last' = [op |-> "ButtonRelease1", args |-> <<>>]
       /\ steps' = steps + 1

\* <Escape>
Escape ==
    LET W == deselect_region(World)
    IN /\ steps < MaxSteps
       /\ Becomes(W)
       /\ b1' = b1
       /\ hit' = IF selected = None THEN hit ELSE "none"
       /\ ext_only' = ext_only
       /\ err' = Raised(W)
       /\ last' = [op |-> "Escape", args |-> <<>>]
       /\ steps' = steps + 1

\* <Left>, <Right>, <Up>, <Down>, with any modifiers held: every script bound
\* to the key runs.
Key ==
    \E i \in DOMAIN Keys, state \in States :
        LET D == dispatch(World, binds[Keys[i]], Keys[i], state, {})
        IN /\ steps < MaxSteps
           /\ Becomes(D.W)
           /\ b1' = b1
           /\ hit' = hit
           /\ ext_only' = ext_only
           /\ err' = D.raised
           /\ last' = [op |-> "Key", args |-> <<Keys[i], state>>]
           /\ steps' = steps + 1

Next == Button1 \/ B1Motion \/ ButtonRelease1 \/ Escape \/ Key

\* The editor: the events Tk delivers to the Representation.
Spec == Init /\ [][Next]_vars

\* A direct call of Region.move
CallMove ==
    \E r \in regions, dx \in Deltas, dy \in Deltas :
        LET W == Region_move(World, r, dx, dy)
        IN /\ steps < MaxCalls
           /\ Becomes(W)
           /\ b1' = b1
           /\ hit' = hit
           /\ ext_only' = ext_only
           /\ err' = Raised(W)
           /\ last' = [op |-> "move", args |-> <<r, dx, dy>>]
           /\ steps' = steps + 1

\* A direct call of Region.resize
CallResize ==
    \E r \in regions, dw \in Deltas, dh \in Deltas, which \in BOOLEAN :
        LET W == Region_resize(World, r, dw, dh, which)
        IN /\ steps < MaxCalls
           /\ Becomes(W)
           /\ b1' = b1
           /\ hit' = hit
           /\ ext_only' = IF which THEN ext_only ELSE ext_only \cup {r}
           /\ err' = Raised(W)
           /\ last' = [op |-> "resize", args |-> <<r, dw, dh, which>>]
           /\ steps' = steps + 1

NextRegion == CallMove \/ CallResize

\* The Region class on its own: any sequence of move and resize calls on the
\* Regions of a constructed Representation.
SpecRegion == Init /\ [][NextRegion]_vars

\* The frames drawn for the first item; the point (3, 3) lies in each.
Frames ==
    {[x |-> 2, y |-> 2, width |-> 2, height |-> 2],
     [x |-> 3, y |-> 2, width |-> 1, height |-> 2],
     [x |-> 2, y |-> 3, width |-> 2, height |-> 1],
     [x |-> 3, y |-> 3, width |-> 1, height |-> 1]}

\* The margins an item's "extendedEdges" may give to an edge.
MarginValues == {0, 2}

\* Every "extendedEdges" dict: any subset of the edges, the empty one too.
Overrides == UNION {[S -> MarginValues] : S \in SUBSET Edges}

\* Item configs Region.__init__ accepts ...
GoodItems ==
    {[inputs |-> [kind |-> "list", val |-> <<"a">>], frame |-> f] :
        f \in Frames}
    \cup {[inputs |-> [kind |-> "list", val |-> <<"a">>], frame |-> f,
           extendedEdges |-> o] : f \in Frames, o \in Overrides}

\* ... and item configs without "inputs", "frame" or a field of the frame.
BrokenItems ==
    {[frame |-> [x |-> 2, y |-> 2, width |-> 2, height |-> 2]],
     [inputs |-> [kind |-> "list", val |-> <<"a">>]],
     [inputs |-> [kind |-> "list", val |-> <<"a">>],
      frame |-> [y |-> 2, width |-> 2, height |-> 2]],
     [inputs |-> [kind |-> "list", val |-> <<"a">>],
      frame |-> [x |-> 2, y |-> 2, width |-> 2]]}

\* The items arguments: the first item drawn, or the second one broken.
ItemsChoices ==
    {<<it, items[2]>> : it \in GoodItems \cup BrokenItems}
    \cup {<<items[1], it>> : it \in BrokenItems}

\* The extended_edges arguments.
EdgesChoices ==
    {default_edges, [top |-> 2, bottom |-> 0, left |-> 1, right |-> 3]}

InitConstruct ==
    \E its \in ItemsChoices, edges \in EdgesChoices, outcome \in AssetOutcomes :
        Constructed(its, edges, outcome)

NextConstruct == Button1 \/ B1Motion

\* Construction from any of the configs, then one press-and-drag gesture.
SpecConstruct == InitConstruct /\ [][NextConstruct]_vars

\* ------------------------------------------------------------ properties
\* Both images of Region r are on the canvas.
BothLive(cv, r) == _e[r] \in DOMAIN cv /\ _t[r] \in DOMAIN cv

\* How far the extended rectangle of Region r reaches beyond its core
\* rectangle on each edge.
Offsets(cv, r) ==
    LET e == cv[_e[r]]
        t == cv[_t[r]]
    IN [k \in Edges |->
          CASE k = "left" -> t.x - e.x
            [] k = "top" -> t.y - e.y
            [] k = "right" -> (e.x + e.w) - (t.x + t.w)
            [] k = "bottom" -> (e.y + e.h) - (t.y + t.h)]

MarginsKept(r) ==
    /\ Offsets(canvas, r) = Region_extended_edges(r)
    /\ \A k \in Edges : Offsets(canvas, r)[k] >= 0

C2_MoveShiftsBoth ==
    [][last'.op = "move" =>
        LET r == last'.args[1]
        IN /\ _e' = _e /\ _t' = _t
           /\ DOMAIN canvas' = DOMAIN canvas
           /\ \A id \in {_e[r], _t[r]} \cap DOMAIN canvas :
                /\ canvas'[id].x = canvas[id].x + last'.args[2]
                /\ canvas'[id].y = canvas[id].y + last'.args[3]
                /\ canvas'[id].w = canvas[id].w
                /\ canvas'[id].h = canvas[id].h]_vars

\* A move by a delta with both components non-zero, of a Region that has
\* both its rectangles, has run.
C2_Witness ==
    /\ last.op = "move"
    /\ last.args[2] # 0
    /\ last.args[3] # 0
    /\ BothLive(canvas, last.args[1])

\* The extended rectangle of Region r in world W (NoBBox when it has none).
ExtendedRect(W, r) == bbox(W.canvas, W._e[r])

\* resize(a, b) followed by resize(c, d); an exception of the first call is
\* reported to the caller, who goes on to make the second.
ResizeTwice(W, r, a, b, c, d) ==
    Region_resize([Region_resize(W, r, a, b, TRUE) EXCEPT !.exc = NoExc],
                  r, c, d, TRUE)

\* C3 as stated: from any state, resize(a, b) then resize(c, d) leaves the
\* extended rectangle where and as large as resize(a+c, b+d) alone does, for
\* any integers a, b, c, d.
C3_ResizeComposes ==
    \A r \in regions : \A a \in Deltas, b \in Deltas, c \in Deltas, d \in Deltas :
        ExtendedRect(ResizeTwice(World, r, a, b, c, d), r)
            = ExtendedRect(Region_resize(World, r, a + c, b + d, TRUE), r)

\* The program's own state: everything but the observers b1, hit, ext_only,
\* err, last and steps.
program_state ==
    <<canvas, nextId, images, _e, _t, selected, _sel, selected_data,
      cur_selected, binds>>

\* C4 as stated: in every reachable state the registry maps the current core
\* identity and the current extended identity of every Region to that Region.
C4_RegistryMapsBothIdentities ==
    \A r \in regions :
        /\ str(_e[r]) \in DOMAIN images /\ images[str(_e[r])] = r
        /\ str(_t[r]) \in DOMAIN images /\ images[str(_t[r])] = r

\* C5 as stated: the registry's keys are exactly the identities of the
\* Regions' images now on the canvas, and there are two of them per Region.
C5_RegistryKeysAreLiveIdentities ==
    /\ DOMAIN images =
           {str(i) : i \in {j \in DOMAIN canvas : "nodrag" \notin canvas[j].tags}}
    /\ Cardinality(DOMAIN images) = 2 * Cardinality(regions)

\* C6: a press that hits an image of a Region selects exactly that Region;
\* the cancel event leaves no Region selected, and with none selected it
\* changes nothing.
C6_SelectOwnerThenDeselect ==
    [][/\ (/\ last'.op = "Button1"
           /\ "nodrag" \notin gettags(canvas, find_closest(canvas, last'.args[1],
                                                           last'.args[2])))
          => /\ Cardinality({r \in regions : selected' = r}) = 1
             /\ find_closest(canvas, last'.args[1], last'.args[2])[1]
                    \in {_e[selected'], _t[selected']}
       /\ last'.op = "Escape" => selected' = None
       /\ (last'.op = "Escape" /\ selected = None) => UNCHANGED program_state
      ]_vars

\* A press has just hit an image of a Region, which is now the selection.
C6_Witness ==
    /\ last.op = "Button1"
    /\ selected \in regions
    /\ _sel = find_closest(canvas, last.args[1], last.args[2])
    /\ _sel[1] \in {_e[selected], _t[selected]}

\* C7 as stated: with no Region selected, a keyboard move, a keyboard resize
\* and a pointer drag each raise no error and change nothing.
C7_NoSelectionIsNoOp ==
    [][(selected = None /\ last'.op \in {"Key", "B1Motion"})
          => (err' = {} /\ UNCHANGED program_state)]_vars

\* The unit step of an arrow key: Right +x, Left -x, Up -y, Down +y.
KeyDelta(keysym) ==
    CASE keysym = "Right" -> <<1, 0>>
      [] keysym = "Left" -> <<-1, 0>>
      [] keysym = "Up" -> <<0, -1>>
      [] keysym = "Down" -> <<0, 1>>

\* bb moved by d / bb with its size changed by d (top-left corner kept).
Shifted(bb, d) == <<bb[1] + d[1], bb[2] + d[2], bb[3] + d[1], bb[4] + d[2]>>

Grown(bb, d) == <<bb[1], bb[2], bb[3] + d[1], bb[4] + d[2]>>

\* C8 as stated: once a press has hit a Region's extended rectangle, every
\* arrow key changes the size of that rectangle by one pixel in the key's
\* dimension and nothing else: the core rectangle stays as it is and the
\* Region is not moved.
C8_ExtendedHitRoutesToExtendedResize ==
    [][(/\ last'.op = "Key"
        /\ selected # None
        /\ hit = "extended"
        /\ BothLive(canvas, selected))
          => /\ bbox(canvas', _t'[selected]) = bbox(canvas, _t[selected])
             /\ bbox(canvas', _e'[selected])
                    = Grown(bbox(canvas, _e[selected]), KeyDelta(last'.args[1]))
      ]_vars

\* C9 as stated: with a Region selected through its core rectangle, an arrow
\* key without the shift bit moves both rectangles one pixel along the key's
\* axis and changes no size; with the shift bit it changes the size of both
\* by one pixel in the key's dimension and moves nothing.
C9_ArrowKeyMovesOrResizes ==
    [][(/\ last'.op = "Key"
        /\ selected # None
        /\ hit = "core"
        /\ BothLive(canvas, selected))
          => LET d == KeyDelta(last'.args[1])
                 t0 == bbox(canvas, _t[selected])
                 e0 == bbox(canvas, _e[selected])
                 t1 == bbox(canvas', _t'[selected])
                 e1 == bbox(canvas', _e'[selected])
             IN IF ShiftBit(last'.args[2])
                THEN t1 = Grown(t0, d) /\ e1 = Grown(e0, d)
                ELSE t1 = Shifted(t0, d) /\ e1 = Shifted(e0, d)
      ]_vars

\* C10 as stated: once an arrow key has been handled for a Region selected
\* through its core rectangle, the status text shows the current bounding
\* box of the image that was hit.
C10_StatusFollowsKeyboard ==
    (last.op = "Key" /\ selected # None /\ hit = "core")
        => /\ _sel # <<>>
           /\ bbox(canvas, _sel[1]) # NoBBox
           /\ LET bb == bbox(canvas, _sel[1])
              IN cur_selected =
                     status_text(status_key(Region_inputs(selected)),
                                 bb[1], bb[2], bb[3], bb[4])

\* The margins an item config resolves to, edge by edge, as section 2 of the
\* specification words it.
resolved(item, defaults) ==
    [k \in Edges |->
        IF "extendedEdges" \in DOMAIN item /\ k \in DOMAIN item.extendedEdges
        THEN item.extendedEdges[k]
        ELSE defaults[k]]

\* C11: for every Region and every edge, the resolved margin is the item's
\* override for that edge when the item has an override that names the edge,
\* and the representation's default for that edge otherwise; the extended
\* image is drawn with exactly these margins around the core.
C11_MarginsResolvePerEdge ==
    construction = "ok" =>
        \A r \in regions :
            /\ Region_extended_edges(r) = resolved(_items[r], extended_edges)
            /\ BothLive(canvas, r) =>
                   Offsets(canvas, r) = resolved(_items[r], extended_edges)

\* C11 happens: a Region was built from an override that names some edges
\* and not others, with a value its default does not have.
C11_Witness ==
    /\ construction = "ok"
    /\ steps = 0
    /\ "extendedEdges" \in DOMAIN _items[1]
    /\ \E k \in DOMAIN _items[1].extendedEdges, j \in Edges :
           /\ j \notin DOMAIN _items[1].extendedEdges
           /\ _items[1].extendedEdges[k] # extended_edges[k]
           /\ Offsets(canvas, 1)[k] = _items[1].extendedEdges[k]
           /\ Offsets(canvas, 1)[j] = extended_edges[j]

\* The point p lies in the core frame the item of Region r asks for.
InCore(r, p) ==
    /\ _items[r].frame.x <= p[1]
    /\ p[1] <= _items[r].frame.x + _items[r].frame.width
    /\ _items[r].frame.y <= p[2]
    /\ p[2] <= _items[r].frame.y + _items[r].frame.height

\* The status text for Region r with its core frame displaced by (dx, dy).
FrameStatus(r, dx, dy) ==
    status_key(Region_inputs(r))
        \o <<" | X: ", _items[r].frame.x + dx, " Y: ", _items[r].frame.y + dy,
             " | W: ", _items[r].frame.width,
             " H: ", _items[r].frame.height>>

\* Right after construction the core of every Region is at (x, y) sized
\* width x height and its extended rectangle at (x-left, y-top) sized
\* (left+width+right) x (top+height+bottom).
ConstructedGeometry ==
    (construction = "ok" /\ steps = 0) =>
        \A r \in regions :
            LET f == _items[r].frame
                m == resolved(_items[r], extended_edges)
            IN /\ bbox(canvas, _t[r]) =
                      <<f.x, f.y, f.x + f.width, f.y + f.height>>
               /\ bbox(canvas, _e[r]) =
                      <<f.x - m.left, f.y - m.top,
                        f.x - m.left + (m.left + f.width + m.right),
                        f.y - m.top + (m.top + f.height + m.bottom)>>

\* A first press inside the core of Region r selects r and publishes the
\* core geometry.
SelectPublishesFrame ==
    \A r \in regions :
        (construction = "ok" /\ steps = 1 /\ last.op = "Button1"
            /\ InCore(r, last.args)) =>
            /\ selected = r
            /\ cur_selected = FrameStatus(r, 0, 0)

\* The drag that follows, by (dx, dy), publishes X: x+dx, Y: y+dy with the
\* same W and H.
MovePublishesShiftedFrame ==
    \A r \in regions :
        (steps = 1 /\ last.op = "Button1" /\ InCore(r, last.args)
            /\ last'.op = "B1Motion") =>
            cur_selected' = FrameStatus(r, last'.args[1] - last.args[1],
                                        last'.args[2] - last.args[2])

\* C12: a Region built from frame {x, y, width, height} with resolved margins
\* {top, bottom, left, right} has its core at (x, y) sized width x height and
\* its extended rectangle at (x-left, y-top) sized (left+width+right) x
\* (top+height+bottom); a press inside the core then publishes that core
\* geometry, and a following move by (dx, dy) publishes X: x+dx, Y: y+dy with
\* the same W and H.
C12_ConstructSelectMove ==
    /\ [](ConstructedGeometry /\ SelectPublishesFrame)
    /\ [][MovePublishesShiftedFrame]_vars

\* C12 happens: a Region with unequal margins was selected inside its core
\* and dragged by a nonzero displacement, and the shifted frame is published.
C12_Witness ==
    /\ construction = "ok"
    /\ steps = 2
    /\ last.op = "B1Motion"
    /\ hit = "core"
    /\ selected = 1
    /\ resolved(_items[1], extended_edges).left
           # resolved(_items[1], extended_edges).right
    /\ \E dx \in {-3, 4}, dy \in {-2, 1} : cur_selected = FrameStatus(1, dx, dy)

\* C13: when the asset loaded and some item config lacks "inputs", "frame" or
\* a field of the frame, construction ends in the configuration error
\* "Couldn't get the correct key!", as it does for a key missing from the
\* asset table.
C13_MissingItemKeyIsConfigError ==
    (/\ 1 \in DOMAIN canvas
     /\ \E r \in DOMAIN _items : ~has_required_keys(_items[r])) =>
        construction = asset_exit("KeyError")

\* The step is a press whose nearest primitive is not the background.
PressOnInteractive ==
    /\ last'.op = "Button1"
    /\ "nodrag" \notin
           canvas[find_closest(canvas, last'.args[1], last'.args[2])[1]].tags

\* What is left by a selection that ran to its end at the press position.
SelectionCompleted ==
    /\ selected_data' = [x |-> last'.args[1], y |-> last'.args[2]]
    /\ _sel' = find_closest(canvas, last'.args[1], last'.args[2])
    /\ selected' # None
    /\ cur_selected' =
           status_text(status_key(Region_inputs(selected')),
                       bbox(canvas', _sel'[1])[1], bbox(canvas', _sel'[1])[2],
                       bbox(canvas', _sel'[1])[3], bbox(canvas', _sel'[1])[4])

\* C14: after a press at (px, py) whose nearest primitive is the core or the
\* extended image of a Region, the drag anchor is (px, py) and the status
\* text is the one of the hit primitive.
C14_SelectCompletes == [][PressOnInteractive => SelectionCompleted]_vars

\* The step is a press whose nearest primitive is the background.
PressOnBackground ==
    /\ last'.op = "Button1"
    /\ "nodrag" \in
           canvas[find_closest(canvas, last'.args[1], last'.args[2])[1]].tags

\* C15: a press whose nearest primitive is the background leaves the selected
\* Region, the recorded hit primitive, the arrow-key bindings, every image of
\* every Region and the status text as they were.
C15_BackgroundPressChangesNothing ==
    [][PressOnBackground =>
          UNCHANGED <<selected, _sel, binds, canvas, _e, _t, images,
                      cur_selected>>]_vars

\* C15 happens: the background was pressed while a Region was selected and
\* its status published.
C15_Witness ==
    /\ last.op = "Button1"
    /\ "nodrag" \in
           canvas[find_closest(canvas, last.args[1], last.args[2])[1]].tags
    /\ selected # None
    /\ _sel # <<>>
    /\ _sel # find_closest(canvas, last.args[1], last.args[2])
    /\ cur_selected # <<>>

\* The step is the cancel event arriving while a Region is selected.
EscapeWithSelection == last'.op = "Escape" /\ selected # None

\* C16: with a Region selected, Escape clears the selection, clears the drag
\* anchor (back to the origin) and sets the status text to the empty string.
C16_EscapeClearsSelectionAndAnchor ==
    [][EscapeWithSelection =>
          /\ selected' = None
          /\ selected_data' = [x |-> 0, y |-> 0]
          /\ cur_selected' = <<>>]_vars

\* C16, amended: with a Region selected, Escape clears the selection and the
\* recorded hit primitive and sets the status text to the empty string; the
\* drag anchor is left as it was.
C16_EscapeClearsSelectionKeepsAnchor ==
    [][EscapeWithSelection =>
          /\ selected' = None
          /\ _sel' = <<>>
          /\ cur_selected' = <<>>
          /\ UNCHANGED selected_data]_vars

\* C16 happens: a press on a core set the anchor, Escape came next, and the
\* selection is gone with the anchor still at the press position.
C16_Witness ==
    /\ steps = 2
    /\ last.op = "Escape"
    /\ hit = "none"
    /\ selected = None
    /\ _sel = <<>>
    /\ cur_selected = <<>>
    /\ selected_data # [x |-> 0, y |-> 0]

\* The step is the first pointer-move of a gesture made with a Region
\* selected: the press came just before, wherever it landed.
FirstMoveOfGesture ==
    /\ last.op = "Button1"
    /\ last'.op = "B1Motion"
    /\ selected # None
    /\ BothLive(canvas, selected)

\* C17: in a gesture made while a Region is selected, the Region is displaced
\* by the pointer's displacement from the press position, never by the
\* pointer's absolute coordinates; here for the first pointer-move after the
\* press, a press on the background after an earlier release included.
C17_DragFollowsPointer ==
    [][FirstMoveOfGesture =>
          /\ bbox(canvas', _t[selected]) =
                 Shifted(bbox(canvas, _t[selected]),
                         <<last'.args[1] - last.args[1],
                           last'.args[2] - last.args[2]>>)
          /\ bbox(canvas', _e[selected]) =
                 Shifted(bbox(canvas, _e[selected]),
                         <<last'.args[1] - last.args[1],
                           last'.args[2] - last.args[2]>>)]_vars

\* C18: whenever a Region is selected, the recorded hit primitive _sel is a
\* live canvas item that is the Region's current core or extended image, so
\* that its bbox, and with it the status text, can be computed.
C18_HitPrimitiveIsLive ==
    selected # None =>
        /\ _sel # <<>>
        /\ _sel[1] \in {_e[selected], _t[selected]}
        /\ _sel[1] \in DOMAIN canvas
        /\ bbox(canvas, _sel[1]) # NoBBox

\* The point (px, py) lies in the rectangle bb, edges included.
Inside(bb, px, py) ==
    /\ bb # NoBBox
    /\ bb[1] <= px /\ px <= bb[3]
    /\ bb[2] <= py /\ py <= bb[4]

\* No image of a Region other than r covers (px, py).
OnlyCoveredBy(r, px, py) ==
    \A q \in regions \ {r} :
        /\ ~Inside(bbox(canvas, _e[q]), px, py)
        /\ ~Inside(bbox(canvas, _t[q]), px, py)

\* C19: after any moves and resizes, a press at a point inside the core of a
\* Region that no other Region covers finds the core image, not the extended
\* one: the core is above its own extended image in hit-test order.
C19_CoreAboveOwnExtended ==
    \A r \in regions :
        BothLive(canvas, r) =>
            \A px \in bbox(canvas, _t[r])[1]..bbox(canvas, _t[r])[3],
               py \in bbox(canvas, _t[r])[2]..bbox(canvas, _t[r])[4] :
                OnlyCoveredBy(r, px, py) =>
                    find_closest(canvas, px, py) = <<_t[r]>>

\* C20: every Region's stored origin (Region.coords) is the top-left corner
\* of its core image as drawn on the canvas.
C20_OriginIsRenderedCorner ==
    \A r \in regions :
        _t[r] \in DOMAIN canvas =>
            Region_coords(r) = <<bbox(canvas, _t[r])[1], bbox(canvas, _t[r])[2]>>

====
